---- MODULE Spec2Model ----
(***************************************************************************)
(* A model of byte-sleuth: the ByteSleuth scanner (src/src/byte_sleuth.py) *)
(* and the older CharacterScanner (src/src/character_scanner.py).          *)
(*                                                                         *)
(* A character is its codepoint (ord); a text is a sequence of codepoints. *)
(* Python offsets are zero-based, TLA+ sequences are one-based: a finding  *)
(* at Python offset idx describes text[idx + 1].                           *)
(***************************************************************************)
EXTENDS Integers, Sequences, FiniteSets, TLC

VARIABLES
    tIn,            \* text handed to a pure text function
    tOp,            \* the text function applied last ("none" before the first)
    tOut,           \* what that function returned
    fs,             \* the directory: path -> file content, or NoFile
    sanitize,       \* ByteSleuth.sanitize
    backup,         \* ByteSleuth.backup
    sanitize_only,  \* ByteSleuth.sanitize_only
    ret,            \* the call that returned last and what it returned
    dir,            \* the scan_directory call in progress, if any
    snap,           \* history: path -> its content at the first backup_file
                    \*   call on it since the last restore_file (or NoFile)
    nbak,           \* history: path -> backup_file calls on it since the last
                    \*   restore_file (0, 1, 2 = two or more)
    preMut,         \* history: path -> the content it had immediately before
                    \*   a scan first overwrote it (or NoFile)
    io              \* standard input and output of a process_stdin call

(***************************************************************************)
(* Bounds of the model.                                                    *)
(***************************************************************************)
MaxTextLen == 3
MaxFileLen == 2
MaxBak == 2

(***************************************************************************)
(* The classification tables.                                              *)
(***************************************************************************)
\* ByteSleuth.UNICODE_SUSPICIOUS_CODEPOINTS, in decimal
\* (0x00AD, 0x034F, 0x061C, 0x115F, 0x1160, 0x17B4, 0x17B5, 0x180B..0x180E,
\*  0x200B..0x200F, 0x202A..0x202E, 0x2060..0x2064, 0x2066..0x206F, 0xFEFF,
\*  0xFFF9..0xFFFB, 0x1D173..0x1D17A)
UNICODE_SUSPICIOUS_CODEPOINTS ==
    {173, 847, 1564, 4447, 4448, 6068, 6069}
    \cup (6155..6158) \cup (8203..8207) \cup (8234..8238)
    \cup (8288..8292) \cup (8294..8303)
    \cup {65279} \cup (65529..65531) \cup (119155..119162)

\* The keys of ByteSleuth.ASCII_CONTROL_NAMES: range(32) plus 127
ASCII_CONTROL_KEYS == (0..31) \cup {127}

\* unicodedata.name(char, default) on the codepoints the model's texts hold;
\* the C0 controls and DEL have no Unicode name, so the default is returned.
unicodedata_name(cp, default) ==
    CASE cp = 173  -> "SOFT HYPHEN"
      [] cp = 8203 -> "ZERO WIDTH SPACE"
      [] cp = 8204 -> "ZERO WIDTH NON-JOINER"
      [] cp = 8238 -> "RIGHT-TO-LEFT OVERRIDE"
      [] OTHER     -> default

\* ByteSleuth.ASCII_CONTROL_NAMES[cp] for cp among its keys
ASCII_CONTROL_NAMES(cp) ==
    IF cp = 127 THEN "DEL (Delete)"
    ELSE unicodedata_name(cp, "ASCII " \o ToString(cp))

\* CharacterScanner.UNICODE_SUSPICIOUS_CODEPOINTS
\* (0x00AD, 0x200B, 0x200E, 0x200F, 0x2060, 0xFEFF, 0x202E)
CS_UNICODE_SUSPICIOUS_CODEPOINTS == {173, 8203, 8206, 8207, 8288, 65279, 8238}

\* The keys of CharacterScanner.ASCII_CONTROL_NAMES: 0..31 and 127
CS_ASCII_CONTROL_KEYS == (0..31) \cup {127}

\* CharacterScanner.ASCII_CONTROL_NAMES[cp], for cp among its keys
CS_ASCII_CONTROL_NAMES(cp) ==
    CASE cp = 0 -> "NUL (Null)"
      [] cp = 1 -> "SOH (Start of Heading)"
      [] cp = 2 -> "STX (Start of Text)"
      [] cp = 3 -> "ETX (End of Text)"
      [] cp = 4 -> "EOT (End of Transmission)"
      [] cp = 5 -> "ENQ (Enquiry)"
      [] cp = 6 -> "ACK (Acknowledge)"
      [] cp = 7 -> "BEL (Bell)"
      [] cp = 8 -> "BS (Backspace)"
      [] cp = 9 -> "HT (Horizontal Tab)"
      [] cp = 10 -> "LF (Line Feed)"
      [] cp = 11 -> "VT (Vertical Tab)"
      [] cp = 12 -> "FF (Form Feed)"
      [] cp = 13 -> "CR (Carriage Return)"
      [] cp = 14 -> "SO (Shift Out)"
      [] cp = 15 -> "SI (Shift In)"
      [] cp = 16 -> "DLE (Data Link Escape)"
      [] cp = 17 -> "DC1 (Device Control 1)"
      [] cp = 18 -> "DC2 (Device Control 2)"
      [] cp = 19 -> "DC3 (Device Control 3)"
      [] cp = 20 -> "DC4 (Device Control 4)"
      [] cp = 21 -> "NAK (Negative Acknowledge)"
      [] cp = 22 -> "SYN (Synchronous Idle)"
      [] cp = 23 -> "ETB (End of Transmission Block)"
      [] cp = 24 -> "CAN (Cancel)"
      [] cp = 25 -> "EM (End of Medium)"
      [] cp = 26 -> "SUB (Substitute)"
      [] cp = 27 -> "ESC (Escape)"
      [] cp = 28 -> "FS (File Separator)"
      [] cp = 29 -> "GS (Group Separator)"
      [] cp = 30 -> "RS (Record Separator)"
      [] cp = 31 -> "US (Unit Separator)"
      [] cp = 127 -> "DEL (Delete)"

(***************************************************************************)
(* ByteSleuth: detection and sanitization of a text.                       *)
(***************************************************************************)
\* The first branch of detect_suspicious_chars: ASCII control (0-31, 127)
DetectIsAsciiControl(cp) == (0 <= cp /\ cp < 32) \/ cp = 127

\* The elif branch: suspicious or invisible Unicode
DetectIsUnicodeSuspicious(cp) == cp \in UNICODE_SUSPICIOUS_CODEPOINTS

\* for idx, char in enumerate(text): ... findings.append((cp, name, char, idx))
\* i is the one-based position, so idx = i - 1.
RECURSIVE DetectFrom(_, _)
DetectFrom(text, i) ==
    IF i > Len(text) THEN <<>>
    ELSE LET cp == text[i]
             rest == DetectFrom(text, i + 1)
         IN IF DetectIsAsciiControl(cp)
            THEN <<[cp |-> cp,
                    name |-> IF cp \in ASCII_CONTROL_KEYS
                             THEN ASCII_CONTROL_NAMES(cp)
                             ELSE unicodedata_name(cp, "UNKNOWN"),
                    char |-> cp, idx |-> i - 1]>> \o rest
            ELSE IF DetectIsUnicodeSuspicious(cp)
            THEN <<[cp |-> cp, name |-> unicodedata_name(cp, "UNKNOWN"),
                    char |-> cp, idx |-> i - 1]>> \o rest
            ELSE rest

detect_suspicious_chars(text) == DetectFrom(text, 1)

\* The condition under which sanitize_text replaces char by ''
SanitizeDrops_NoDel(cp) ==
    (0 <= cp /\ cp < 32) \/ cp \in UNICODE_SUSPICIOUS_CODEPOINTS

SanitizeDrops(cp) ==
    (0 <= cp /\ cp < 32) \/ cp = 127 \/ cp \in UNICODE_SUSPICIOUS_CODEPOINTS

\* ''.join(char if not (...) else '' for char in text)
RECURSIVE JoinKept(_)
JoinKept(text) ==
    IF text = <<>> THEN <<>>
    ELSE (IF ~SanitizeDrops(Head(text)) THEN <<Head(text)>> ELSE <<>>)
         \o JoinKept(Tail(text))

\* A sanitizer that deletes while it iterates: the character after a deleted
\* one is stepped over.
RECURSIVE JoinKept_SkipAfterDelete(_)
JoinKept_SkipAfterDelete(text) ==
    IF text = <<>> THEN <<>>
    ELSE IF ~SanitizeDrops(Head(text))
         THEN <<Head(text)>> \o JoinKept_SkipAfterDelete(Tail(text))
         ELSE IF Len(text) = 1 THEN <<>>
         ELSE <<text[2]>> \o JoinKept_SkipAfterDelete(Tail(Tail(text)))

sanitize_text_SkipAfterDelete(text) == JoinKept_SkipAfterDelete(text)

sanitize_text(text) == JoinKept(text)

(***************************************************************************)
(* CharacterScanner: detection and sanitization of a text.                 *)
(***************************************************************************)
\* detect_ascii_chars: one finding (cp, name, char) per control character
RECURSIVE CS_detect_ascii_chars(_)
CS_detect_ascii_chars(text) ==
    IF text = <<>> THEN <<>>
    ELSE LET cp == Head(text)
         IN (IF cp \in CS_ASCII_CONTROL_KEYS
             THEN <<[cp |-> cp, name |-> CS_ASCII_CONTROL_NAMES(cp), char |-> cp]>>
             ELSE <<>>)
            \o CS_detect_ascii_chars(Tail(text))

\* detect_unicode_chars: one finding per codepoint of the Unicode list
RECURSIVE CS_detect_unicode_chars(_)
CS_detect_unicode_chars(text) ==
    IF text = <<>> THEN <<>>
    ELSE LET cp == Head(text)
         IN (IF cp \in CS_UNICODE_SUSPICIOUS_CODEPOINTS
             THEN <<[cp |-> cp, name |-> unicodedata_name(cp, "UNKNOWN CHARACTER"),
                     char |-> cp]>>
             ELSE <<>>)
            \o CS_detect_unicode_chars(Tail(text))

\* detect_all_chars: the ASCII findings followed by the Unicode findings
CS_detect_all_chars(text) ==
    CS_detect_ascii_chars(text) \o CS_detect_unicode_chars(text)

\* The characters CharacterScanner.sanitize_text leaves out
CS_SanitizeDrops(cp) ==
    cp \in CS_ASCII_CONTROL_KEYS \/ cp \in CS_UNICODE_SUSPICIOUS_CODEPOINTS

\* ''.join(char for char in text if ord(char) not in ... and ord(char) not in ...)
RECURSIVE CS_JoinKept(_)
CS_JoinKept(text) ==
    IF text = <<>> THEN <<>>
    ELSE (IF ~CS_SanitizeDrops(Head(text)) THEN <<Head(text)>> ELSE <<>>)
         \o CS_JoinKept(Tail(text))

CS_sanitize_text(text) == CS_JoinKept(text)

(***************************************************************************)
(* The texts the pure functions are applied to.                            *)
(***************************************************************************)
\* NUL, LF, space, 'A', DEL, ZERO WIDTH SPACE, ZERO WIDTH NON-JOINER (in
\* ByteSleuth's set only), U+2065 (in neither set, between two members)
TextAlphabet == {0, 10, 32, 65, 127, 8203, 8204, 8293}

SeqsUpTo(S, n) == UNION {[1..k -> S] : k \in 0..n}

Texts == SeqsUpTo(TextAlphabet, MaxTextLen)

\* "Invisible char: ​\nAnother: ‮" (examples/example_1/simple_scan.py)
ScenarioText ==
    <<73, 110, 118, 105, 115, 105, 98, 108, 101, 32, 99, 104, 97, 114, 58, 32,
      8203, 10,
      65, 110, 111, 116, 104, 101, 114, 58, 32, 8238>>

\* "[INFO] User login\x00\x07\n[ERROR] Invalid password\x1B\n"
\* (examples/real_world_examples/log_with_hidden_controls)
LogText ==
    <<91, 73, 78, 70, 79, 93, 32, 85, 115, 101, 114, 32, 108, 111, 103, 105, 110,
      0, 7, 10,
      91, 69, 82, 82, 79, 82, 93, 32, 73, 110, 118, 97, 108, 105, 100, 32,
      112, 97, 115, 115, 119, 111, 114, 100, 27, 10>>


(***************************************************************************)
(* The file system: one directory. Path k stands for "a" followed by k     *)
(* ".bak" suffixes, so that backup_path = f"{file_path}.bak" is k + 1; the *)
(* backups the scanner writes are regular files of the scanned directory.  *)
(* A file's content is its sequence of codepoints (its UTF-8 decoding).    *)
(***************************************************************************)
Paths == 0..MaxBak

\* The paths a call is made on: their backup path is a path of the model
CallPaths == 0..(MaxBak - 1)

\* backup_path = f"{file_path}.bak"
Bak(p) == p + 1

NoFile == <<-1>>

\* A regular file whose bytes are not valid UTF-8: f.read() raises
\* UnicodeDecodeError
Undecodable == <<-2>>

\* A directory at the path: open(path, ...) raises IsADirectoryError
IsDir == <<-3>>

\* os.path.exists(path)
Exists(f, p) == f[p] # NoFile

\* os.path.isfile(path)
IsFile(f, p) == f[p] # NoFile /\ f[p] # IsDir

\* open(path, 'w', encoding='utf-8') raises: a directory is in the way
WriteFails(f, p) == f[p] = IsDir

\* CR, 'A', ZERO WIDTH SPACE
FileAlphabet == {13, 65, 8203}

FileTexts == SeqsUpTo(FileAlphabet, MaxFileLen)

\* open(path, 'r', encoding='utf-8').read(): text mode with universal
\* newlines, "\r\n" and a lone "\r" are both read as "\n"
RECURSIVE TextRead(_)
TextRead(data) ==
    IF data = <<>> THEN <<>>
    ELSE IF Head(data) = 13
         THEN IF Len(data) >= 2 /\ data[2] = 10
              THEN <<10>> \o TextRead(Tail(Tail(data)))
              ELSE <<10>> \o TextRead(Tail(data))
         ELSE <<Head(data)>> \o TextRead(Tail(data))

\* open(path, 'w', encoding='utf-8').write(text): text mode on POSIX, where
\* os.linesep is "\n" and nothing is translated
TextWrite(text) == text

\* os.cpu_count() of the machines modelled
CpuCounts == {1, 4}

\* max_workers = min(4, max(1, cpu_count // 2))
MaxWorkers(cpu_count) ==
    LET half == cpu_count \div 2
        atLeast1 == IF half > 1 THEN half ELSE 1
    IN IF atLeast1 < 4 THEN atLeast1 ELSE 4

(***************************************************************************)
(* ByteSleuth.backup_file and restore_file.                                *)
(***************************************************************************)
\* backup_file with self.backup set, on a file that exists: the file is read
\* as text and written as text to backup_path, whatever backup_path held
backup_file(f, p) ==
    [f EXCEPT ![Bak(p)] = TextWrite(TextRead(f[p]))]

\* The history of a backup_file call on p while the files are f
SnapAfterBackup(f, p) ==
    IF nbak[p] = 0 THEN [snap EXCEPT ![p] = f[p]] ELSE snap

NbakAfterBackup(p) ==
    [nbak EXCEPT ![p] = IF nbak[p] < 2 THEN nbak[p] + 1 ELSE 2]

BackupFile(p) ==
    /\ dir.phase = "idle"
    /\ IF ~backup
       THEN \* "Backup feature is disabled. No backup created."
            /\ ret' = [op |-> "backup_file", path |-> p, value |-> "None",
                       raised |-> FALSE, msg |-> "disabled"]
            /\ UNCHANGED <<fs, snap, nbak>>
       ELSE IF fs[p] = NoFile \/ fs[p] = IsDir \/ WriteFails(fs, Bak(p))
       THEN \* open(file_path, 'r') or open(backup_path, 'w') raises
            /\ ret' = [op |-> "backup_file", path |-> p, value |-> "None",
                       raised |-> TRUE, msg |-> "none"]
            /\ UNCHANGED <<fs, snap, nbak>>
       ELSE IF fs[p] = Undecodable
       THEN \* backup_path is opened for writing, then original_file.read()
            \* raises UnicodeDecodeError: an empty backup is left
            /\ fs' = [fs EXCEPT ![Bak(p)] = <<>>]
            /\ ret' = [op |-> "backup_file", path |-> p, value |-> "None",
                       raised |-> TRUE, msg |-> "none"]
            /\ UNCHANGED <<snap, nbak>>
       ELSE /\ fs' = backup_file(fs, p)
            /\ snap' = SnapAfterBackup(fs, p)
            /\ nbak' = NbakAfterBackup(p)
            /\ ret' = [op |-> "backup_file", path |-> p, value |-> "None",
                       raised |-> FALSE, msg |-> "Backup created"]
    /\ UNCHANGED <<sanitize, backup, sanitize_only, dir, preMut, tIn, tOp, tOut, io>>

\* restore_file: the value returned, on either branch (line 266)
RestoreReturn(found) == TRUE

RestoreFile(p) ==
    /\ dir.phase = "idle"
    /\ LET found == Exists(fs, Bak(p))
       IN IF found /\ (fs[Bak(p)] = IsDir \/ WriteFails(fs, p))
          THEN \* open(backup_path, 'r') or open(file_path, 'w') raises
               /\ UNCHANGED fs
               /\ ret' = [op |-> "restore_file", path |-> p, value |-> FALSE,
                          msg |-> "raised"]
          ELSE IF found /\ fs[Bak(p)] = Undecodable
          THEN \* file_path is opened for writing, then backup_file.read()
               \* raises UnicodeDecodeError: file_path is left empty
               /\ fs' = [fs EXCEPT ![p] = <<>>]
               /\ ret' = [op |-> "restore_file", path |-> p, value |-> FALSE,
                          msg |-> "raised"]
          ELSE /\ IF found
                  THEN fs' = [fs EXCEPT ![p] = TextWrite(TextRead(fs[Bak(p)])),
                                        ![Bak(p)] = NoFile]
                  ELSE UNCHANGED fs
               /\ ret' = [op |-> "restore_file", path |-> p,
                          value |-> RestoreReturn(found),
                          msg |-> IF found THEN "File restored from backup"
                                  ELSE "No backup found. Cannot restore."]
    /\ snap' = [snap EXCEPT ![p] = NoFile]
    /\ nbak' = [nbak EXCEPT ![p] = 0]
    /\ preMut' = [preMut EXCEPT ![p] = NoFile]
    /\ UNCHANGED <<sanitize, backup, sanitize_only, dir, tIn, tOp, tOut, io>>

(***************************************************************************)
(* ByteSleuth.scan_file, as the steps a worker takes: read, back up,       *)
(* write. A direct call takes them in one go.                              *)
(***************************************************************************)
\* A reader that takes every existing path for a text file
ReadFails_OnlyMissing(f, p) == f[p] = NoFile

\* with open(file_path, 'r', encoding='utf-8') as f: content = f.read()
\* raises: the file is missing, is a directory, or is not valid UTF-8
ReadFails(f, p) == f[p] = NoFile \/ f[p] = IsDir \/ f[p] = Undecodable

\* A scanner that sanitizes whenever sanitize is set, findings or not
ScanMutates_WithoutFindings(content) ==
    IF sanitize_only THEN TRUE ELSE sanitize

\* Whether scan_file goes on to write the file, given the content it read
ScanMutates(content) ==
    IF sanitize_only THEN TRUE
    ELSE detect_suspicious_chars(content) # <<>> /\ sanitize

\* What scan_file returns, given the content it read
ScanFindings(content) ==
    IF sanitize_only THEN <<>> ELSE detect_suspicious_chars(content)

\* with open(file_path, 'w', encoding='utf-8') as f: f.write(sanitize_text(content))
ScanWrite(f, p, content) ==
    [f EXCEPT ![p] = TextWrite(sanitize_text(content))]

PreMutAfterWrite(f, p) ==
    IF preMut[p] = NoFile THEN [preMut EXCEPT ![p] = f[p]] ELSE preMut

ScanFile(p) ==
    /\ dir.phase = "idle"
    /\ IF ReadFails(fs, p)
       THEN /\ ret' = [op |-> "scan_file", path |-> p, value |-> <<>>,
                       readError |-> TRUE, raised |-> FALSE]
            /\ UNCHANGED <<fs, snap, nbak, preMut>>
       ELSE IF ScanMutates(TextRead(fs[p])) /\ backup /\ WriteFails(fs, Bak(p))
       THEN \* backup_file raises at open(backup_path, 'w') and nothing
            \* catches it: scan_file raises, before the file is written
            /\ ret' = [op |-> "scan_file", path |-> p, value |-> <<>>,
                       readError |-> FALSE, raised |-> TRUE]
            /\ UNCHANGED <<fs, snap, nbak, preMut>>
       ELSE LET content == TextRead(fs[p])
                f1 == IF backup THEN backup_file(fs, p) ELSE fs
            IN /\ ret' = [op |-> "scan_file", path |-> p,
                          value |-> ScanFindings(content),
                          readError |-> FALSE, raised |-> FALSE]
               /\ IF ScanMutates(content)
                  THEN /\ fs' = ScanWrite(f1, p, content)
                       /\ preMut' = PreMutAfterWrite(f1, p)
                       /\ IF backup
                          THEN /\ snap' = SnapAfterBackup(fs, p)
                               /\ nbak' = NbakAfterBackup(p)
                          ELSE UNCHANGED <<snap, nbak>>
                  ELSE UNCHANGED <<fs, snap, nbak, preMut>>
    /\ UNCHANGED <<sanitize, backup, sanitize_only, dir, tIn, tOp, tOut, io>>

(***************************************************************************)
(* ByteSleuth.scan_directory: the files are listed, scan_file runs on each *)
(* in a pool of max_workers processes, and the results are gathered.       *)
(***************************************************************************)
DirIdle == [phase |-> "idle", files |-> <<>>, workers |-> 0, task |-> <<>>,
            start |-> <<>>]

\* The orders in which os.listdir may list the files S
Listings(S) ==
    {s \in [1..Cardinality(S) -> S] : \A i, j \in DOMAIN s : i # j => s[i] # s[j]}

\* scan_directory on a path that is no directory: logs and returns {}
ScanDirectoryInvalid ==
    /\ dir.phase = "idle"
    /\ ret' = [op |-> "scan_directory", value |-> <<>>, invalid |-> TRUE,
               raised |-> FALSE]
    /\ UNCHANGED <<fs, sanitize, backup, sanitize_only, dir, snap, nbak, preMut,
                   tIn, tOp, tOut, io>>

\* files = [... for f in os.listdir(directory_path) if os.path.isfile(...)];
\* executor.map(self.scan_file, files) queues one task per file, in order.
\* The call is modelled while the deepest path is no file, so that every file
\* listed has its backup path among Paths.
DirStart ==
    /\ dir.phase = "idle"
    /\ ~IsFile(fs, MaxBak)
    /\ \E files \in Listings({p \in Paths : IsFile(fs, p)}), cpu \in CpuCounts :
          dir' = [phase |-> "run", files |-> files, workers |-> MaxWorkers(cpu),
                  task |-> [i \in DOMAIN files |->
                              [pc |-> "queued", content |-> <<>>, findings |-> <<>>]],
                  start |-> fs]
    /\ UNCHANGED <<fs, sanitize, backup, sanitize_only, ret, snap, nbak, preMut,
                   tIn, tOp, tOut, io>>

Running == {i \in DOMAIN dir.task : dir.task[i].pc \in {"read", "backed"}}

\* A free worker takes the next queued task and runs scan_file up to the
\* point where it has read the file and computed its findings
TaskRead(i) ==
    /\ dir.phase \in {"run", "abort"}
    /\ dir.task[i].pc = "queued"
    /\ \A j \in 1..(i - 1) : dir.task[j].pc # "queued"
    /\ Cardinality(Running) < dir.workers
    /\ LET p == dir.files[i]
       IN IF ReadFails(fs, p)
          THEN dir' = [dir EXCEPT !.task[i] =
                          [pc |-> "done", content |-> <<>>, findings |-> <<>>]]
          ELSE LET content == TextRead(fs[p])
               IN dir' = [dir EXCEPT !.task[i] =
                             [pc |-> IF ~ScanMutates(content) THEN "done"
                                     ELSE IF backup THEN "read" ELSE "backed",
                              content |-> content,
                              findings |-> ScanFindings(content)]]
    /\ UNCHANGED <<fs, sanitize, backup, sanitize_only, ret, snap, nbak, preMut,
                   tIn, tOp, tOut, io>>

\* if self.backup: self.backup_file(file_path). When backup_path cannot be
\* opened for writing the exception leaves scan_file: the task has failed.
TaskBackup(i) ==
    /\ dir.phase \in {"run", "abort"}
    /\ dir.task[i].pc = "read"
    /\ LET p == dir.files[i]
       IN IF WriteFails(fs, Bak(p))
          THEN /\ dir' = [dir EXCEPT !.task[i].pc = "failed"]
               /\ UNCHANGED <<fs, snap, nbak>>
          ELSE /\ fs' = backup_file(fs, p)
               /\ snap' = SnapAfterBackup(fs, p)
               /\ nbak' = NbakAfterBackup(p)
               /\ dir' = [dir EXCEPT !.task[i].pc = "backed"]
    /\ UNCHANGED <<sanitize, backup, sanitize_only, ret, preMut, tIn, tOp, tOut, io>>

\* f.write(self.sanitize_text(content)), and the task returns
TaskWrite(i) ==
    /\ dir.phase \in {"run", "abort"}
    /\ dir.task[i].pc = "backed"
    /\ LET p == dir.files[i]
       IN /\ fs' = ScanWrite(fs, p, dir.task[i].content)
          /\ preMut' = PreMutAfterWrite(fs, p)
    /\ dir' = [dir EXCEPT !.task[i].pc = "done"]
    /\ UNCHANGED <<sanitize, backup, sanitize_only, ret, snap, nbak, tIn, tOp, tOut, io>>

\* for file_path, findings in zip(files, scan_results):
\*     if findings: results[file_path] = findings
DirResults(files, task) ==
    LET keys == {files[i] : i \in {j \in DOMAIN files : task[j].findings # <<>>}}
    IN [p \in keys |-> task[CHOOSE i \in DOMAIN files : files[i] = p].findings]

DirFinish ==
    /\ dir.phase = "run"
    /\ \A i \in DOMAIN dir.task : dir.task[i].pc = "done"
    /\ ret' = [op |-> "scan_directory", value |-> DirResults(dir.files, dir.task),
               invalid |-> FALSE, raised |-> FALSE]
    /\ dir' = DirIdle
    /\ UNCHANGED <<fs, sanitize, backup, sanitize_only, snap, nbak, preMut,
                   tIn, tOp, tOut, io>>

\* list(executor.map(...)) takes the results in the order of files: the first
\* result that is an exception is raised in scan_directory, which has no
\* handler for it
DirAbort ==
    /\ dir.phase = "run"
    /\ \E k \in DOMAIN dir.task :
          /\ dir.task[k].pc = "failed"
          /\ \A j \in 1..(k - 1) : dir.task[j].pc = "done"
    /\ dir' = [dir EXCEPT !.phase = "abort"]
    /\ UNCHANGED <<fs, sanitize, backup, sanitize_only, ret, snap, nbak, preMut,
                   tIn, tOp, tOut, io>>

\* The result iterator cancels the futures it has not yielded; one that no
\* worker has taken yet is cancelled, unless a worker takes it first
TaskCancel(i) ==
    /\ dir.phase = "abort"
    /\ dir.task[i].pc = "queued"
    /\ dir' = [dir EXCEPT !.task[i].pc = "cancelled"]
    /\ UNCHANGED <<fs, sanitize, backup, sanitize_only, ret, snap, nbak, preMut,
                   tIn, tOp, tOut, io>>

\* The with block waits for the tasks that run, then the exception leaves
\* scan_directory: no mapping is returned
DirRaise ==
    /\ dir.phase = "abort"
    /\ \A i \in DOMAIN dir.task : dir.task[i].pc \in {"done", "failed", "cancelled"}
    /\ ret' = [op |-> "scan_directory", value |-> <<>>, invalid |-> FALSE,
               raised |-> TRUE]
    /\ dir' = DirIdle
    /\ UNCHANGED <<fs, sanitize, backup, sanitize_only, snap, nbak, preMut,
                   tIn, tOp, tOut, io>>

\* scan_file(p) run from start to end on the files f: the files it leaves
\* and the findings it returns (no directory is in the way of a backup)
ScanFileOutcome(f, p) ==
    IF ReadFails(f, p) THEN [fs |-> f, findings |-> <<>>]
    ELSE LET content == TextRead(f[p])
             f1 == IF backup THEN backup_file(f, p) ELSE f
         IN [fs |-> IF ScanMutates(content) THEN ScanWrite(f1, p, content) ELSE f,
             findings |-> ScanFindings(content)]

\* The tasks of files[i..] run one after another, in the order of files, as
\* a pool of one worker runs them
RECURSIVE SequentialScan(_, _, _, _)
SequentialScan(f, files, i, task) ==
    IF i > Len(files) THEN [fs |-> f, task |-> task]
    ELSE LET o == ScanFileOutcome(f, files[i])
         IN SequentialScan(o.fs, files, i + 1,
                           Append(task, [findings |-> o.findings]))

(***************************************************************************)
(* CharacterScanner.scan_file(file_path, mode), on a scanner constructed   *)
(* with the given sanitize flag.                                           *)
(***************************************************************************)
Modes == {"ascii", "unicode", "all"}

CS_Findings(content, mode) ==
    IF mode = "ascii" THEN CS_detect_ascii_chars(content)
    ELSE IF mode = "unicode" THEN CS_detect_unicode_chars(content)
    ELSE CS_detect_all_chars(content)

CS_ScanFile(p, mode, cs_sanitize) ==
    /\ dir.phase = "idle"
    /\ IF ReadFails(fs, p)
       THEN /\ ret' = [op |-> "cs_scan_file", path |-> p, mode |-> mode,
                       sanitize |-> cs_sanitize, value |-> <<>>,
                       readError |-> TRUE]
            /\ UNCHANGED fs
       ELSE LET content == TextRead(fs[p])
            IN /\ ret' = [op |-> "cs_scan_file", path |-> p, mode |-> mode,
                          sanitize |-> cs_sanitize,
                          value |-> CS_Findings(content, mode),
                          readError |-> FALSE]
               /\ IF cs_sanitize
                  THEN fs' = [fs EXCEPT ![p] = TextWrite(CS_sanitize_text(content))]
                  ELSE UNCHANGED fs
    /\ UNCHANGED <<sanitize, backup, sanitize_only, dir, snap, nbak, preMut,
                   tIn, tOp, tOut, io>>

(***************************************************************************)
(* ByteSleuth.process_stdin, run by the command line when no target is     *)
(* given. sys.stdin is a text stream with universal newlines; print writes *)
(* to sys.stdout, a buffered text stream which print does not flush.       *)
(***************************************************************************)
\* The lines that iterating a text stream yields: each ends with its line
\* feed, but the last one when the text does not end with a line feed
RECURSIVE SplitLines(_, _)
SplitLines(text, line) ==
    IF text = <<>> THEN (IF line = <<>> THEN <<>> ELSE <<line>>)
    ELSE IF Head(text) = 10
         THEN <<Append(line, 10)>> \o SplitLines(Tail(text), <<>>)
         ELSE SplitLines(Tail(text), Append(line, Head(text)))

\* for line in sys.stdin, on the bytes data
StdinLines(data) == SplitLines(TextRead(data), <<>>)

\* NUL, LF, CR, 'A'
StdinAlphabet == {0, 10, 13, 65}

StdinTexts == SeqsUpTo(StdinAlphabet, MaxTextLen) \cup {LogText}

\* No process_stdin call
IoIdle == [pc |-> "idle", lines |-> <<>>, k |-> 0, line |-> <<>>, buf |-> <<>>,
           out |-> <<>>, unbuffered |-> FALSE]

\* for line in sys.stdin: the next line is read
StdinReadLine ==
    /\ io.pc = "iter"
    /\ io.k < Len(io.lines)
    /\ io' = [io EXCEPT !.pc = "print", !.k = io.k + 1, !.line = io.lines[io.k + 1]]
    /\ UNCHANGED <<tIn, tOp, tOut, fs, sanitize, backup, sanitize_only, ret, dir,
                   snap, nbak, preMut>>

\* sanitized_line = self.sanitize_text(line); print(sanitized_line, end="").
\* The text goes to sys.stdout's buffer; it reaches the output at once only
\* when the stream is unbuffered (python -u, PYTHONUNBUFFERED). A line-buffered
\* terminal flushes on a line feed, and sanitize_text leaves none. The texts of
\* the model are shorter than the buffer.
StdinPrint ==
    /\ io.pc = "print"
    /\ LET b == io.buf \o sanitize_text(io.line)
       IN io' = IF io.unbuffered
                THEN [io EXCEPT !.pc = "iter", !.out = io.out \o b, !.buf = <<>>]
                ELSE [io EXCEPT !.pc = "iter", !.buf = b]
    /\ UNCHANGED <<tIn, tOp, tOut, fs, sanitize, backup, sanitize_only, ret, dir,
                   snap, nbak, preMut>>

\* End of input: the for loop ends and process_stdin returns
StdinEnd ==
    /\ io.pc = "iter"
    /\ io.k = Len(io.lines)
    /\ io' = [io EXCEPT !.pc = "returned"]
    /\ UNCHANGED <<tIn, tOp, tOut, fs, sanitize, backup, sanitize_only, ret, dir,
                   snap, nbak, preMut>>

\* exit(0) at the end of the command line: the interpreter flushes sys.stdout
StdinExit ==
    /\ io.pc = "returned"
    /\ io' = [io EXCEPT !.pc = "exited", !.out = io.out \o io.buf, !.buf = <<>>]
    /\ UNCHANGED <<tIn, tOp, tOut, fs, sanitize, backup, sanitize_only, ret, dir,
                   snap, nbak, preMut>>

(***************************************************************************)
(* Specifications.                                                         *)
(***************************************************************************)
fvars == <<fs, sanitize, backup, sanitize_only, ret, dir, snap, nbak, preMut>>

tvars == <<tIn, tOp, tOut>>

vars == <<tIn, tOp, tOut, fs, sanitize, backup, sanitize_only, ret, dir, snap,
          nbak, preMut, io>>

\* A directory holding "a" and possibly an "a.bak", and a ByteSleuth
\* constructed with any flags
FsInit ==
    /\ fs \in {f \in [Paths -> FileTexts \cup {NoFile}] :
                 /\ f[0] # NoFile
                 /\ \A p \in Paths : p > 1 => f[p] = NoFile}
    /\ sanitize \in BOOLEAN
    /\ backup \in BOOLEAN
    /\ sanitize_only \in BOOLEAN
    /\ ret = [op |-> "none"]
    /\ dir = DirIdle
    /\ snap = [p \in Paths |-> NoFile]
    /\ nbak = [p \in Paths |-> 0]
    /\ preMut = [p \in Paths |-> NoFile]

\* A directory that also holds entries that cannot be read as text or
\* written: "a" may not be valid UTF-8, "a.bak" may be that or a directory,
\* "a.bak.bak" may be a directory
FsInitErr ==
    /\ fs \in {f \in [Paths -> FileTexts \cup {NoFile, Undecodable, IsDir}] :
                 /\ f[0] \in FileTexts \cup {Undecodable}
                 /\ f[2] \in {NoFile, IsDir}
                 /\ \A p \in Paths : p > 2 => f[p] = NoFile}
    /\ sanitize \in BOOLEAN
    /\ backup \in BOOLEAN
    /\ sanitize_only \in BOOLEAN
    /\ ret = [op |-> "none"]
    /\ dir = DirIdle
    /\ snap = [p \in Paths |-> NoFile]
    /\ nbak = [p \in Paths |-> 0]
    /\ preMut = [p \in Paths |-> NoFile]

\* No file and no scanner call: the state in which the text functions run
FsNone ==
    /\ fs = [p \in Paths |-> NoFile]
    /\ sanitize = FALSE
    /\ backup = TRUE
    /\ sanitize_only = FALSE
    /\ ret = [op |-> "none"]
    /\ dir = DirIdle
    /\ snap = [p \in Paths |-> NoFile]
    /\ nbak = [p \in Paths |-> 0]
    /\ preMut = [p \in Paths |-> NoFile]

TextNone ==
    /\ tIn = <<>>
    /\ tOp = "none"
    /\ tOut = <<>>

StdinNone == io = IoIdle

\* process_stdin has been called on an input, with sys.stdout buffered (the
\* default) or unbuffered
StdinInit ==
    io \in {[pc |-> "iter", lines |-> StdinLines(d), k |-> 0, line |-> <<>>,
             buf |-> <<>>, out |-> <<>>, unbuffered |-> u] :
                d \in StdinTexts, u \in BOOLEAN}

TextInit ==
    /\ tIn \in Texts \cup {ScenarioText, LogText}
    /\ tOp = "none"
    /\ tOut = <<>>

BS_Detect ==
    /\ tOp = "none"
    /\ tOp' = "bs_detect"
    /\ tOut' = detect_suspicious_chars(tIn)
    /\ UNCHANGED <<tIn, fs, sanitize, backup, sanitize_only, ret, dir, snap, nbak,
                   preMut, io>>

BS_Sanitize ==
    /\ tOp = "none"
    /\ tOp' = "bs_sanitize"
    /\ tOut' = sanitize_text(tIn)
    /\ UNCHANGED <<tIn, fs, sanitize, backup, sanitize_only, ret, dir, snap, nbak,
                   preMut, io>>

\* sanitize_text applied to its own result
BS_SanitizeAgain ==
    /\ tOp = "bs_sanitize"
    /\ tOp' = "bs_sanitize_again"
    /\ tOut' = sanitize_text(tOut)
    /\ UNCHANGED <<tIn, fs, sanitize, backup, sanitize_only, ret, dir, snap, nbak,
                   preMut, io>>

CS_DetectAscii ==
    /\ tOp = "none"
    /\ tOp' = "cs_detect_ascii"
    /\ tOut' = CS_detect_ascii_chars(tIn)
    /\ UNCHANGED <<tIn, fs, sanitize, backup, sanitize_only, ret, dir, snap, nbak,
                   preMut, io>>

CS_DetectUnicode ==
    /\ tOp = "none"
    /\ tOp' = "cs_detect_unicode"
    /\ tOut' = CS_detect_unicode_chars(tIn)
    /\ UNCHANGED <<tIn, fs, sanitize, backup, sanitize_only, ret, dir, snap, nbak,
                   preMut, io>>

CS_DetectAll ==
    /\ tOp = "none"
    /\ tOp' = "cs_detect_all"
    /\ tOut' = CS_detect_all_chars(tIn)
    /\ UNCHANGED <<tIn, fs, sanitize, backup, sanitize_only, ret, dir, snap, nbak,
                   preMut, io>>

CS_Sanitize ==
    /\ tOp = "none"
    /\ tOp' = "cs_sanitize"
    /\ tOut' = CS_sanitize_text(tIn)
    /\ UNCHANGED <<tIn, fs, sanitize, backup, sanitize_only, ret, dir, snap, nbak,
                   preMut, io>>

TextNext ==
    \/ BS_Detect
    \/ BS_Sanitize
    \/ BS_SanitizeAgain
    \/ CS_DetectAscii
    \/ CS_DetectUnicode
    \/ CS_DetectAll
    \/ CS_Sanitize

\* Only ByteSleuth.scan_file and scan_directory
ScanNext ==
    \/ \E p \in CallPaths : ScanFile(p)
    \/ ScanDirectoryInvalid
    \/ DirStart
    \/ \E i \in DOMAIN dir.task : TaskRead(i)
    \/ \E i \in DOMAIN dir.task : TaskBackup(i)
    \/ \E i \in DOMAIN dir.task : TaskWrite(i)
    \/ DirFinish

\* ByteSleuth.scan_file, backup_file and restore_file
BackupNext ==
    \/ \E p \in CallPaths : ScanFile(p)
    \/ \E p \in CallPaths : BackupFile(p)
    \/ \E p \in CallPaths : RestoreFile(p)

\* The scan_file of either scanner
FileNext ==
    \/ \E p \in CallPaths : ScanFile(p)
    \/ \E p \in CallPaths, mode \in Modes, s \in BOOLEAN : CS_ScanFile(p, mode, s)

\* scan_directory on a directory where a task can fail
DirErrNext ==
    \/ DirStart
    \/ \E i \in DOMAIN dir.task : TaskRead(i)
    \/ \E i \in DOMAIN dir.task : TaskBackup(i)
    \/ \E i \in DOMAIN dir.task : TaskWrite(i)
    \/ DirFinish
    \/ DirAbort
    \/ \E i \in DOMAIN dir.task : TaskCancel(i)
    \/ DirRaise

\* One scan_file call, of either scanner, on a directory
FirstScanFile(p) == ret.op = "none" /\ ScanFile(p)

FirstCS_ScanFile(p, mode, s) == ret.op = "none" /\ CS_ScanFile(p, mode, s)

CallNext ==
    \/ \E p \in CallPaths : FirstScanFile(p)
    \/ \E p \in CallPaths, mode \in Modes, s \in BOOLEAN : FirstCS_ScanFile(p, mode, s)

StdinNext ==
    \/ StdinReadLine
    \/ StdinPrint
    \/ StdinEnd
    \/ StdinExit

Next ==
    \/ \E p \in CallPaths : ScanFile(p)
    \/ ScanDirectoryInvalid
    \/ DirStart
    \/ \E i \in DOMAIN dir.task : TaskRead(i)
    \/ \E i \in DOMAIN dir.task : TaskBackup(i)
    \/ \E i \in DOMAIN dir.task : TaskWrite(i)
    \/ DirFinish
    \/ \E p \in CallPaths : BackupFile(p)
    \/ \E p \in CallPaths : RestoreFile(p)
    \/ \E p \in CallPaths, mode \in Modes, s \in BOOLEAN : CS_ScanFile(p, mode, s)

\* A directory and a scanner, no text function running
Init == FsInit /\ TextNone /\ StdinNone

\* A directory with unreadable entries and a scanner
InitErr == FsInitErr /\ TextNone /\ StdinNone

\* A process_stdin call, and no file
InitStdin == StdinInit /\ TextNone /\ FsNone

\* A text, and no file
InitText == TextInit /\ FsNone /\ StdinNone

\* Every operation on the directory
Spec == Init /\ [][Next]_vars

SpecScan == Init /\ [][ScanNext]_vars

SpecBackup == Init /\ [][BackupNext]_vars

SpecFile == Init /\ [][FileNext]_vars

\* scan_directory, with tasks that fail
SpecDirErr == InitErr /\ [][DirErrNext]_vars

\* A single scan_file call on every directory of the bounds
SpecCall == InitErr /\ [][CallNext]_vars

\* process_stdin on every input of the bounds
SpecStdin == InitStdin /\ [][StdinNext]_vars

\* The text functions, on every text of the bounds
SpecText == InitText /\ [][TextNext]_vars

(***************************************************************************)
(* What the claims speak of.                                               *)
(***************************************************************************)
\* Suspicious, as the claims define it for ByteSleuth: codepoint 0..31, 127,
\* or a member of UNICODE_SUSPICIOUS_CODEPOINTS
Suspicious == (0..31) \cup {127} \cup UNICODE_SUSPICIOUS_CODEPOINTS

\* The same for CharacterScanner, with its own list
CS_Suspicious == (0..31) \cup {127} \cup CS_UNICODE_SUSPICIOUS_CODEPOINTS

\* out is text with exactly the characters of S deleted: no character of S is
\* left, and the k-th kept character of text is the k-th character of out
ExactDeletion(text, out, S) ==
    LET keep == {i \in 1..Len(text) : text[i] \notin S}
    IN /\ Len(out) = Cardinality(keep)
       /\ \A k \in 1..Len(out) : out[k] \notin S
       /\ \A i \in keep : out[Cardinality({j \in keep : j <= i})] = text[i]

\* The characters of S in text, left to right
InOrder(text, S) == SelectSeq(text, LAMBDA c : c \in S)

\* The characters a findings list reports, in the order of the list
Reported(findings) == [k \in 1..Len(findings) |-> findings[k].char]

HasSuspicious(data) == \E i \in 1..Len(data) : data[i] \in Suspicious

\* How often c occurs in text
Count(text, c) == Cardinality({i \in 1..Len(text) : text[i] = c})

\* C1: sanitize_text(t) is t with exactly the suspicious characters deleted:
\* nothing suspicious is left, every other character is kept once, in order,
\* and nothing is substituted or inserted (ByteSleuth and CharacterScanner,
\* each with its own list).
C1_SanitizeDeletesExactlySuspicious ==
    /\ tOp = "bs_sanitize" => ExactDeletion(tIn, tOut, Suspicious)
    /\ tOp = "cs_sanitize" => ExactDeletion(tIn, tOut, CS_Suspicious)

\* C1's case: a text with DEL and other suspicious characters among clean
\* ones has been sanitized, and something was deleted and something kept
C1_Witness ==
    /\ tOp = "bs_sanitize"
    /\ \E i \in 1..Len(tIn) : tIn[i] = 127
    /\ tOut # <<>>
    /\ Len(tOut) < Len(tIn)

\* C2: sanitization is idempotent: sanitize_text applied to the result of
\* sanitize_text returns that result unchanged.
C2_SanitizeIdempotent == [][BS_SanitizeAgain => tOut' = tOut]_vars

\* C2's case: a text that sanitize_text changed has been sanitized twice
C2_Witness ==
    /\ tOp = "bs_sanitize_again"
    /\ tOut # tIn
    /\ tOut # <<>>

\* C8: findings are listed in order of appearance: detect_suspicious_chars
\* and detect_all_chars enumerate the suspicious characters of the text left
\* to right; ByteSleuth's offsets are zero-based, strictly increasing, and
\* text[offset] is the reported character.
C8_FindingsInOrderOfAppearance ==
    /\ tOp = "bs_detect" =>
          /\ Reported(tOut) = InOrder(tIn, Suspicious)
          /\ \A k \in 1..Len(tOut) :
                /\ tOut[k].idx \in 0..(Len(tIn) - 1)
                /\ tIn[tOut[k].idx + 1] = tOut[k].char
                /\ k > 1 => tOut[k - 1].idx < tOut[k].idx
    /\ tOp = "cs_detect_all" => Reported(tOut) = InOrder(tIn, CS_Suspicious)

\* C10: scanning "Invisible char: " U+200B LF "Another: " U+202E yields
\* exactly two findings, ZERO WIDTH SPACE at offset 16 and then
\* RIGHT-TO-LEFT OVERRIDE, and reports no other character.
C10_ScenarioHasTwoFindings ==
    (tOp = "bs_detect" /\ tIn = ScenarioText) =>
        /\ Len(tOut) = 2
        /\ tOut[1].cp = 8203
        /\ tOut[1].name = "ZERO WIDTH SPACE"
        /\ tOut[1].idx = 16
        /\ tOut[2].cp = 8238
        /\ tOut[2].name = "RIGHT-TO-LEFT OVERRIDE"

\* text with the characters at the offsets a findings list reports deleted
DeleteReported(text, findings) ==
    LET offsets == {findings[k].idx : k \in 1..Len(findings)}
        marked == [i \in 1..Len(text) |->
                      IF (i - 1) \in offsets THEN -1 ELSE text[i]]
    IN SelectSeq(marked, LAMBDA c : c # -1)

\* C3: a second backup_file(path), with no restore_file since the first,
\* leaves the existing backup untouched: path.bak, which held the content C1
\* of the first call, still holds C1 after the second call, not C2.
C3_SecondBackupKeepsFirst ==
    [][\A p \in CallPaths :
          (nbak[p] = 1 /\ nbak'[p] = 2 /\ fs[Bak(p)] = snap[p])
              => fs'[Bak(p)] = snap[p]]_vars

\* C4: with backup enabled and no restore_file, once a scan has overwritten
\* p, p.bak holds the content p had immediately before its first overwrite,
\* and no later scan replaces that snapshot.
C4_ScansKeepFirstSnapshot ==
    [][\A p \in CallPaths :
          (backup /\ preMut[p] # NoFile /\ fs[Bak(p)] = preMut[p])
              => fs'[Bak(p)] = preMut[p]]_vars

\* C5: backup_file(path) on content C, followed later by restore_file(path),
\* leaves path with content C and no path.bak.
C5_BackupRestoreRoundTrip ==
    [][\A p \in CallPaths :
          (RestoreFile(p) /\ snap[p] # NoFile)
              => (fs'[p] = snap[p] /\ fs'[Bak(p)] = NoFile)]_vars

\* C6: restore_file(path) with no path.bak changes no file and returns a
\* result that differs from the result of a successful restore.
C6_RestoreReportsNotFound ==
    [][\A p \in CallPaths :
          (RestoreFile(p) /\ fs[Bak(p)] = NoFile)
              => (fs' = fs /\ ret'.value # RestoreReturn(TRUE))]_vars

\* C7: a sanitizing scan_file reports exactly what it removes. ByteSleuth:
\* deleting the reported offsets from the content read gives the file's new
\* content. CharacterScanner, in every mode: the characters deleted from the
\* content read are the characters reported, each as often.
C7_FindingsAreWhatWasRemoved ==
    [][/\ \A p \in CallPaths :
             (ScanFile(p) /\ sanitize /\ ~sanitize_only /\ ~ReadFails(fs, p))
                 => fs'[p] = DeleteReported(TextRead(fs[p]), ret'.value)
       /\ \A p \in CallPaths, mode \in Modes :
             (CS_ScanFile(p, mode, TRUE) /\ ~ReadFails(fs, p))
                 => \A c \in CS_Suspicious \cup FileAlphabet :
                       Count(TextRead(fs[p]), c)
                           = Count(fs'[p], c) + Count(Reported(ret'.value), c)]_vars

\* C9: outside sanitize_only mode, the keys scan_directory returns are
\* exactly the regular files of the directory that hold a suspicious
\* character; no clean file is a key and no suspicious file is missing.
C9_DirectoryKeysAreTheSuspiciousFiles ==
    [][(DirFinish /\ ~sanitize_only)
          => DOMAIN ret'.value =
                {p \in Paths : dir.start[p] # NoFile /\ HasSuspicious(dir.start[p])}]_vars

\* "[INFO] User login\n[ERROR] Invalid password\n", the text the log
\* scenario expects
LogTextExpected ==
    <<91, 73, 78, 70, 79, 93, 32, 85, 115, 101, 114, 32, 108, 111, 103, 105, 110,
      10,
      91, 69, 82, 82, 79, 82, 93, 32, 73, 110, 118, 97, 108, 105, 100, 32,
      112, 97, 115, 115, 119, 111, 114, 100, 10>>

\* C11: sanitizing the log text "[INFO] User login" NUL BEL LF
\* "[ERROR] Invalid password" ESC LF yields "[INFO] User login" LF
\* "[ERROR] Invalid password" LF: NUL, BEL and ESC are removed and both line
\* feeds are kept.
C11_LogTextKeepsLineFeeds ==
    (tOp = "bs_sanitize" /\ tIn = LogText) => tOut = LogTextExpected

\* A scan_directory call ends, by returning or by raising
DirEnds == dir.phase # "idle" /\ dir'.phase = "idle"

\* The mapping of the tasks that succeeded
SucceededResults(files, task) ==
    LET keys == {files[i] : i \in {j \in DOMAIN files :
                                     task[j].pc = "done" /\ task[j].findings # <<>>}}
    IN [p \in keys |-> task[CHOOSE i \in DOMAIN files : files[i] = p].findings]

\* C12: during scan_directory a file-scan task that fails with an I/O error
\* does not abort the batch: scan_directory does not raise, no sibling task
\* is left unscanned, and the mapping returned holds the findings of all the
\* files whose scan succeeded.
C12_FailedTaskDoesNotAbortBatch ==
    [][DirEnds =>
          /\ ~ret'.raised
          /\ \A i \in DOMAIN dir.task : dir.task[i].pc # "cancelled"
          /\ ret'.value = SucceededResults(dir.files, dir.task)]_vars

\* Cannot be read as text, as the claims define it: missing, not a regular
\* file, or not valid UTF-8
Unreadable(f, p) == f[p] \in {NoFile, IsDir, Undecodable}

\* C13: scan_file on a file that cannot be read as text returns an empty
\* findings list without raising and leaves the file system unchanged: the
\* file is not written, no path.bak is created or modified, whatever the
\* sanitize, sanitize_only and backup settings (ByteSleuth and
\* CharacterScanner).
C13_UnreadableFileIsLeftAlone ==
    [][/\ \A p \in CallPaths :
             (ScanFile(p) /\ Unreadable(fs, p))
                 => (ret'.value = <<>> /\ ~ret'.raised /\ fs' = fs)
       /\ \A p \in CallPaths, mode \in Modes, s \in BOOLEAN :
             (CS_ScanFile(p, mode, s) /\ Unreadable(fs, p))
                 => (ret'.value = <<>> /\ fs' = fs)]_vars

\* C13's case: a file that is not valid UTF-8, with a backup beside it, has
\* been scanned by a scanner set to sanitize_only with backup
C13_Witness ==
    /\ ret.op = "scan_file"
    /\ ret.readError
    /\ fs[ret.path] = Undecodable
    /\ fs[Bak(ret.path)] \notin {NoFile, IsDir, Undecodable}
    /\ sanitize_only
    /\ backup

\* C14: in sanitize_only mode scan_file on a readable file always overwrites
\* the file with sanitize_text(content), suspicious characters or not; with
\* backup enabled path.bak then holds the content the file had before the
\* overwrite; and the findings list returned is empty.
C14_SanitizeOnlyBacksUpThenOverwrites ==
    [][\A p \in CallPaths :
          (ScanFile(p) /\ sanitize_only /\ ~Unreadable(fs, p) /\ ~ret'.raised)
              => /\ fs'[p] = sanitize_text(TextRead(fs[p]))
                 /\ backup => fs'[Bak(p)] = fs[p]
                 /\ ret'.value = <<>>]_vars

\* sanitize_text of the first k lines, concatenated
RECURSIVE SanitizedLines(_, _)
SanitizedLines(lines, k) ==
    IF k = 0 THEN <<>>
    ELSE SanitizedLines(lines, k - 1) \o sanitize_text(lines[k])

\* C15: process_stdin transforms line by line: whenever it is about to read
\* a line, or has met the end of input, the output is the concatenation of
\* sanitize_text of the lines read so far; no file is created; and the loop
\* ends only at the end of input.
C15_OutputFollowsInput ==
    /\ io.pc \in {"iter", "returned", "exited"}
          => io.out = SanitizedLines(io.lines, io.k)
    /\ io.pc \in {"returned", "exited"} => io.k = Len(io.lines)
    /\ io.pc # "idle" => \A p \in Paths : fs[p] = NoFile

\* C16: the mapping scan_directory returns and the files it leaves are the
\* same under every interleaving of the tasks: they are those of the tasks
\* run one after another on the same listing.
C16_DirectoryScanIsDeterministic ==
    [][DirFinish =>
          LET seq == SequentialScan(dir.start, dir.files, 1, <<>>)
          IN /\ ret'.value = DirResults(dir.files, seq.task)
             /\ fs' = seq.fs]_vars

\* C17: outside sanitize_only mode scan_file changes the file system only
\* when sanitize is set and the findings are not empty: with sanitize off,
\* or on a file with no suspicious character, the file is not written and
\* no path.bak is created or modified.
C17_ScanMutatesOnlyWithFindings ==
    [][\A p \in CallPaths :
          (ScanFile(p) /\ ~sanitize_only)
              => /\ (~sanitize \/ ret'.value = <<>>) => fs' = fs
                 /\ (~Unreadable(fs, p) /\ ~HasSuspicious(TextRead(fs[p])))
                       => fs' = fs]_vars

\* C17's case: a scanner set to sanitize with backup has scanned a file
\* that is not empty and has no suspicious character, and no backup exists
C17_Witness ==
    /\ ret.op = "scan_file"
    /\ ~ret.readError
    /\ ~sanitize_only
    /\ sanitize
    /\ backup
    /\ ret.value = <<>>
    /\ fs[ret.path] # <<>>
    /\ fs[Bak(ret.path)] = NoFile

(***************************************************************************)
(* Further checks, made while settling the claims above.                   *)
(***************************************************************************)
\* With C2, on files: what a sanitizing ByteSleuth.scan_file leaves in the
\* file is what a second sanitizing scan would write again (SpecFile)
RescanWritesTheSame ==
    (ret.op = "scan_file" /\ ~ret.readError /\ (sanitize \/ sanitize_only))
        => sanitize_text(TextRead(fs[ret.path])) = fs[ret.path]

\* With C7: the ByteSleuth half alone holds (SpecFile)
BS_FindingsAreWhatWasRemoved ==
    [][\A p \in CallPaths :
          (ScanFile(p) /\ sanitize /\ ~sanitize_only /\ ~ReadFails(fs, p))
              => fs'[p] = DeleteReported(TextRead(fs[p]), ret'.value)]_vars

\* With C8: the ByteSleuth half alone holds (SpecText)
BS_FindingsInOrderOfAppearance ==
    tOp = "bs_detect" =>
        /\ Reported(tOut) = InOrder(tIn, Suspicious)
        /\ \A k \in 1..Len(tOut) :
              /\ tOut[k].idx \in 0..(Len(tIn) - 1)
              /\ tIn[tOut[k].idx + 1] = tOut[k].char
              /\ k > 1 => tOut[k - 1].idx < tOut[k].idx

\* With C9: without sanitization nothing is written and the keys are exact
\* (SpecScan)
DirectoryKeysExactWithoutSanitize ==
    [][(DirFinish /\ ~sanitize_only /\ ~sanitize)
          => DOMAIN ret'.value =
                {p \in Paths : dir.start[p] # NoFile /\ HasSuspicious(dir.start[p])}]_vars

\* With C4: outside sanitize_only mode too a later scan replaces the
\* snapshot, when scan_directory scans the backup itself (SpecScan)
ScansKeepFirstSnapshotOutsideSanitizeOnly ==
    [][\A p \in CallPaths :
          (backup /\ ~sanitize_only /\ preMut[p] # NoFile /\ fs[Bak(p)] = preMut[p])
              => fs'[Bak(p)] = preMut[p]]_vars

\* With C12: a task that cannot read its file fails nothing, and with backup
\* off no batch is aborted (SpecDirErr)
OnlyBackupAbortsBatch ==
    [][(DirEnds /\ ~backup) => ~ret'.raised]_vars

\* With C14: all of it holds for path.bak compared as text, with the line
\* ends as read (SpecCall)
SanitizeOnlyBacksUpTextThenOverwrites ==
    [][\A p \in CallPaths :
          (ScanFile(p) /\ sanitize_only /\ ~Unreadable(fs, p) /\ ~ret'.raised)
              => /\ fs'[p] = sanitize_text(TextRead(fs[p]))
                 /\ backup => fs'[Bak(p)] = TextRead(fs[p])
                 /\ ret'.value = <<>>]_vars

\* With C14: a call that raises has written nothing (SpecCall)
RaisingScanWritesNothing ==
    [][\A p \in CallPaths : (ScanFile(p) /\ ret'.raised) => fs' = fs]_vars

\* With C15: on an unbuffered sys.stdout the output follows the input
\* (SpecStdin)
UnbufferedOutputFollowsInput ==
    (io.unbuffered /\ io.pc \in {"iter", "returned", "exited"})
        => io.out = SanitizedLines(io.lines, io.k)

\* With C15: once the interpreter has exited all of the output is out
\* (SpecStdin)
OutputCompleteAtExit ==
    io.pc = "exited" => io.out = SanitizedLines(io.lines, Len(io.lines))

\* With C16: a pool of one worker is deterministic (SpecScan)
OneWorkerIsSequential ==
    [][(DirFinish /\ dir.workers = 1) =>
          LET seq == SequentialScan(dir.start, dir.files, 1, <<>>)
          IN /\ ret'.value = DirResults(dir.files, seq.task)
             /\ fs' = seq.fs]_vars

\* With C16: so is any pool when nothing is written (SpecScan)
ReadOnlyScanIsDeterministic ==
    [][(DirFinish /\ ~sanitize /\ ~sanitize_only) =>
          LET seq == SequentialScan(dir.start, dir.files, 1, <<>>)
          IN /\ ret'.value = DirResults(dir.files, seq.task)
             /\ fs' = seq.fs]_vars

====
